---- MODULE Spec2Model ----
(***************************************************************************)
(* Model of refreshable.py (zbanks/doitlive): SafeRefreshMixin, an object  *)
(* whose attributes are hot-swapped by refresh() and restored by revert(), *)
(* and SafeRefreshableLoop, a worker thread that calls step() repeatedly   *)
(* and reverts when step() raises.                                         *)
(***************************************************************************)
EXTENDS Integers, Sequences, FiniteSets, TLC

\* ------------------------------------------------------------------ bounds
\* refresh() is not started once _refresh_rev has reached MaxRev,
MaxRev == 2
\* nor once _refresh_history holds MaxHist snapshots.
MaxHist == 2
\* The observer `begun` stops counting at MaxBegun.
MaxBegun == 2

\* ------------------------------------------------------------- vocabulary
\* Names a class definition (NewClass.__dict__) may carry.
RefNames == {"A", "step"}
\* A name that definitions never carry; it is only reachable through DEFAULTS
\* or AUTO_NONE.
DefName == "d"
Names == RefNames \cup {DefName}
\* The keys of SafeRefreshMixin.DEFAULTS itself.
HistKey == "_refresh_history"
RevKey == "_refresh_rev"

\* Attribute values: data or bound methods, told apart by a number.
Values == 0..2
\* The name is not a key of the instance's __dict__.
Absent == -1
\* Python's None.
None == -2
Slots == Values \cup {Absent, None}

\* A dict over a subset of RefNames: a class __dict__ or a snapshot.
DictsOver(S, V) == UNION {[K -> V] : K \in SUBSET S}
Definitions == DictsOver(RefNames, Values)
\* The empty dict; revert() also sees its default history=None as this.
EmptyDict == <<>>

\* How DEFAULTS treats DefName: not a key, a zero-argument callable, a truthy
\* literal or a falsy literal.
DefaultKinds == {"nokey", "producer", "truthy", "falsy"}
ProducedValue == 1
TruthyLiteral == 1
FalsyLiteral == 0

VARIABLES
    attrs,      \* self.__dict__ restricted to Names: Names -> Slots
    hist,       \* self._refresh_history, oldest first; <<>> while unset
    histSet,    \* "_refresh_history" is a key of self.__dict__
    rev,        \* self._refresh_rev; 0 while unset
    revSet,     \* "_refresh_rev" is a key of self.__dict__
    defKind,    \* the class's DEFAULTS entry for DefName
    autoNone,   \* the class's AUTO_NONE
    stopped,    \* self.stopped
    pc,         \* position of the thread running run()
    pause,      \* observer: the latest of stop()/restart() made by a controller
    begun,      \* observer: step() calls begun since that stop()
    halted,     \* observer: run() found nothing to revert to (line 257)
    heal,       \* observer: failing step() calls counted from a marked point
    last        \* the call that produced this state, with its arguments and result

vars == <<attrs, hist, histSet, rev, revSet, defKind, autoNone, stopped, pc,
          pause, begun, halted, heal, last>>

\* ---------------------------------------------------------------- helpers
Front(s) == SubSeq(s, 1, Len(s) - 1)
Top(s) == s[Len(s)]

\* for key, value in history.items(): self.__setattr__(key, value)
ApplyDict(a, snap) ==
    [n \in DOMAIN a |-> IF n \in DOMAIN snap THEN snap[n] ELSE a[n]]

Present(a) == {n \in DOMAIN a : a[n] # Absent}

\* ----------------------------------------------------------------- revert
\* revert() as it would be with pop(0): the oldest snapshot is taken.
revertOldest(a, h, hs, snap) ==
    IF DOMAIN snap = {}
    THEN IF h = <<>>
         THEN [attrs |-> a, hist |-> h, histSet |-> TRUE, ok |-> FALSE]
         ELSE [attrs |-> ApplyDict(a, Head(h)), hist |-> Tail(h),
               histSet |-> TRUE, ok |-> TRUE]
    ELSE [attrs |-> ApplyDict(a, snap), hist |-> h, histSet |-> hs, ok |-> TRUE]

\* revert() as it would be if the IndexError of pop() were answered with True.
revertEmptyOk(a, h, hs, snap) ==
    IF DOMAIN snap = {}
    THEN IF h = <<>>
         THEN [attrs |-> a, hist |-> h, histSet |-> TRUE, ok |-> TRUE]
         ELSE [attrs |-> ApplyDict(a, Top(h)), hist |-> Front(h),
               histSet |-> TRUE, ok |-> TRUE]
    ELSE [attrs |-> ApplyDict(a, snap), hist |-> h, histSet |-> hs, ok |-> TRUE]

\* revert(history): `not history` holds for None and for the empty dict; then
\* the most recent snapshot is popped (reading self._refresh_history creates it
\* from DEFAULTS when unset); pop() on an empty list raises IndexError, which
\* is reported as False.
revert(a, h, hs, snap) ==
    IF DOMAIN snap = {}
    THEN IF h = <<>>
         THEN [attrs |-> a, hist |-> h, histSet |-> TRUE, ok |-> FALSE]
         ELSE [attrs |-> ApplyDict(a, Top(h)), hist |-> Front(h),
               histSet |-> TRUE, ok |-> TRUE]
    ELSE [attrs |-> ApplyDict(a, snap), hist |-> h, histSet |-> hs, ok |-> TRUE]

\* ---------------------------------------------------------------- refresh
\* The swapped keys as they would be if refresh() ignored NewClass.STATICS.
SwapKeysAll(def, statics) == DOMAIN def

\* The keys refresh() swaps: those of NewClass.__dict__ not in NewClass.STATICS.
SwapKeys(def, statics) == DOMAIN def \ statics

\* How a refresh call goes.  kind is
\*   "reload"   NewClass is None and reloading the module fails;
\*   "mutation" the swap loop raises after the keys in P were swapped (dict
\*              order is arbitrary) and, when F = {f}, after f's old value was
\*              recorded but before f was set;
\*   "post"     the swap completes and post_refresh() raises;
\*   "none"     nothing raises.
\* A raising pre_refresh() is printed and ignored (lines 111-117): it changes
\* none of these.
Outcomes(def, statics) ==
    LET K == SwapKeys(def, statics) IN
    {[kind |-> k, P |-> K, F |-> {}] : k \in {"none", "post"}}
    \cup {[kind |-> "reload", P |-> {}, F |-> {}]}
    \cup {[kind |-> "mutation", P |-> P, F |-> F] :
            P \in {Q \in SUBSET K : Q # K \/ Q = {}},
            F \in {G \in SUBSET K : Cardinality(G) <= 1}}

\* The pending `history` dict when the swap loop has handled P and recorded F.
Pending(a, PF) == [n \in (PF \cap Present(a)) |-> a[n]]

\* The instance's __dict__ once the keys in P carry the new definition's values.
Swapped(a, def, P) == [n \in DOMAIN a |-> IF n \in P THEN def[n] ELSE a[n]]

\* refresh() as it would be if the module were reloaded inside the try block
\* of the swap loop: a failed reload would be answered with a rollback.
refreshReloadInTry(a, h, hs, r, rs, def, statics, o) ==
    LET pending == Pending(a, o.P \cup (o.F \ o.P))
        swapped == Swapped(a, def, o.P)
        rb == revert(swapped, h, hs, pending)
    IN  CASE o.kind = "reload" ->
                [attrs |-> rb.attrs, hist |-> rb.hist, histSet |-> rb.histSet,
                 rev |-> r, revSet |-> rs, res |-> "reload_failed"]
          [] o.kind \in {"mutation", "post"} ->
                [attrs |-> rb.attrs, hist |-> rb.hist, histSet |-> rb.histSet,
                 rev |-> r, revSet |-> rs, res |-> "refresh_failed"]
          [] OTHER ->
                [attrs |-> swapped, hist |-> Append(h, pending), histSet |-> TRUE,
                 rev |-> r + 1, revSet |-> TRUE, res |-> "ok"]

\* refresh(NewClass): the whole method, as a function of the instance's fields.
refresh(a, h, hs, r, rs, def, statics, o) ==
    LET pending == Pending(a, o.P \cup (o.F \ o.P))
        swapped == Swapped(a, def, o.P)
        rb == revert(swapped, h, hs, pending)
    IN  CASE o.kind = "reload" ->
                [attrs |-> a, hist |-> h, histSet |-> hs, rev |-> r, revSet |-> rs,
                 res |-> "reload_failed"]
          [] o.kind \in {"mutation", "post"} ->
                [attrs |-> rb.attrs, hist |-> rb.hist, histSet |-> rb.histSet,
                 rev |-> r, revSet |-> rs, res |-> "refresh_failed"]
          [] OTHER ->
                [attrs |-> swapped, hist |-> Append(h, pending), histSet |-> TRUE,
                 rev |-> r + 1, revSet |-> TRUE, res |-> "ok"]

\* ------------------------------------------------- __getattr__ and DEFAULTS
\* The keys of self.DEFAULTS for a class whose DEFAULTS treats DefName as kind.
DefaultsKeys(kind) == {HistKey, RevKey} \cup (IF kind = "nokey" THEN {} ELSE {DefName})

\* __getattr__(name) for a name of Names (lines 78-87).  DEFAULTS.get(name) is
\* None for a missing key; `value and value.__call__` calls a producer, leaves
\* a falsy value alone, and raises AttributeError on a truthy value that has no
\* __call__ attribute.
getattr_(a, kind, auto, name) ==
    LET inDefaults == name \in DefaultsKeys(kind) IN
    IF ~inDefaults /\ ~auto
    THEN [attrs |-> a, res |-> "AttributeError", ret |-> None]
    ELSE IF inDefaults /\ kind = "truthy"
    THEN [attrs |-> a, res |-> "AttributeError", ret |-> None]
    ELSE LET value == IF ~inDefaults THEN None
                      ELSE IF kind = "producer" THEN ProducedValue
                      ELSE FalsyLiteral
         IN  [attrs |-> [a EXCEPT ![name] = value], res |-> "ok", ret |-> value]

\* ------------------------------------------------------------------- init
NoCall == [op |-> "none"]

\* The observer before a point is marked.
NoMark == [on |-> FALSE, h0 |-> 0, fails |-> 0]

\* A new instance of a class with the given DEFAULTS entry and AUTO_NONE: its
\* __init__ has set A; methods live on the class.
Fresh(kind, auto) ==
    /\ attrs = [n \in Names |-> IF n = "A" THEN 0 ELSE Absent]
    /\ hist = <<>>
    /\ histSet = FALSE
    /\ rev = 0
    /\ revSet = FALSE
    /\ defKind = kind
    /\ autoNone = auto
    /\ stopped = FALSE
    /\ pc = "init"
    /\ heal = NoMark
    /\ pause = "none"
    /\ begun = 0
    /\ halted = FALSE
    /\ last = NoCall

\* A class that keeps the mixin's own DEFAULTS and AUTO_NONE (lines 71-76).
Init == Fresh("nokey", FALSE)

\* A class that sets AUTO_NONE, or adds an entry for DefName to DEFAULTS.
DefaultsInit ==
    \E kind \in DefaultKinds, auto \in BOOLEAN :
        /\ auto => kind = "nokey"
        /\ Fresh(kind, auto)

config == <<defKind, autoNone>>
store == <<attrs, hist, histSet, rev, revSet>>
loop == <<stopped, pc, pause, begun, halted, heal>>

\* ------------------------------------------------- calls made on the instance
\* No call is in progress.
Idle == last = NoCall

\* The bounds leave room for one more refresh.
Room == rev < MaxRev /\ Len(hist) < MaxHist

\* A caller invokes refresh(NewClass) with a class whose __dict__ is in D and
\* whose STATICS is in S.
RefreshFrom(D, S) ==
    /\ Idle
    /\ Room
    /\ \E def \in D, statics \in S :
       \E o \in Outcomes(def, statics) :
         LET n == refresh(attrs, hist, histSet, rev, revSet, def, statics, o) IN
         /\ attrs' = n.attrs
         /\ hist' = n.hist
         /\ histSet' = n.histSet
         /\ rev' = n.rev
         /\ revSet' = n.revSet
         /\ last' = [op |-> "refresh", res |-> n.res, def |-> def,
                     statics |-> statics, kind |-> o.kind, pre |-> attrs]
    /\ UNCHANGED <<config, loop>>

\* The call just made was a refresh() that succeeded.
JustRefreshed == last.op = "refresh" /\ last.res = "ok"

\* Whole versions of the class: each gives every name the version's value.
Versions == {[n \in RefNames |-> v] : v \in Values}

\* A caller invokes refresh(NewClass) with any class.
Refresh == RefreshFrom(Definitions, SUBSET RefNames)

\* A caller invokes refresh(NewClass) with a whole version and no STATICS.
RefreshVersion == RefreshFrom(Versions, {{}})

\* A caller invokes revert() with no argument, possibly as the very next call
\* after a successful refresh().
Revert ==
    /\ Idle \/ JustRefreshed
    /\ LET n == revert(attrs, hist, histSet, EmptyDict) IN
         /\ attrs' = n.attrs
         /\ hist' = n.hist
         /\ histSet' = n.histSet
         /\ last' = [op |-> "revert", res |-> n.ok, after |-> last.op,
                     from |-> attrs]
    /\ UNCHANGED <<rev, revSet, config, loop>>

\* A caller invokes revert(history) with a snapshot of its own.
RevertWith ==
    /\ Idle
    /\ \E snap \in Definitions :
         LET n == revert(attrs, hist, histSet, snap) IN
         /\ attrs' = n.attrs
         /\ hist' = n.hist
         /\ histSet' = n.histSet
         /\ last' = [op |-> "revert_with", res |-> n.ok, snap |-> snap]
    /\ UNCHANGED <<rev, revSet, config, loop>>

\* A caller invokes purge() (lines 181-187).  `del self._refresh_history` on an
\* instance whose __dict__ has no such key raises AttributeError, which the
\* `except NameError` clause does not catch.
Purge ==
    /\ Idle
    /\ IF histSet
       THEN /\ hist' = <<>>
            /\ last' = [op |-> "purge", res |-> "ok"]
       ELSE /\ hist' = hist
            /\ last' = [op |-> "purge", res |-> "AttributeError"]
    /\ UNCHANGED <<attrs, histSet, rev, revSet, config, loop>>

\* A caller reads self.<name>: the instance's __dict__ is looked up first and
\* __getattr__ runs only when the name is found neither there nor on the class.
\* The names of RefNames are class attributes; DefName is not.
Get ==
    /\ Idle
    /\ \E name \in Present(attrs) \cup {DefName} :
         IF attrs[name] # Absent
         THEN /\ attrs' = attrs
              /\ last' = [op |-> "get", name |-> name, res |-> "ok",
                          ret |-> attrs[name], hook |-> FALSE]
         ELSE LET n == getattr_(attrs, defKind, autoNone, name) IN
              /\ attrs' = n.attrs
              /\ last' = [op |-> "get", name |-> name, res |-> n.res,
                          ret |-> n.ret, hook |-> TRUE]
    /\ UNCHANGED <<hist, histSet, rev, revSet, config, loop>>

\* A caller reads self._refresh_rev; DEFAULTS has the producer `lambda : 0`.
GetRev ==
    /\ Idle
    /\ rev' = rev
    /\ revSet' = TRUE
    /\ last' = [op |-> "get", name |-> RevKey, res |-> "ok", ret |-> rev,
                hook |-> ~revSet]
    /\ UNCHANGED <<attrs, hist, histSet, config, loop>>

\* A caller reads self._refresh_history; DEFAULTS has the producer `lambda : []`.
GetHistory ==
    /\ Idle
    /\ hist' = hist
    /\ histSet' = TRUE
    /\ last' = [op |-> "get", name |-> HistKey, res |-> "ok", ret |-> Len(hist),
                hook |-> ~histSet]
    /\ UNCHANGED <<attrs, rev, revSet, config, loop>>

\* init_defaults() (lines 89-92) calls __getattr__ itself for every key of
\* DEFAULTS, in dict order, whether or not the instance holds the key.  A
\* truthy literal makes __getattr__ raise, after any subset of the other keys.
InitDefaults ==
    /\ Idle
    /\ \E done \in SUBSET {HistKey, RevKey} :
         /\ defKind # "truthy" => done = {HistKey, RevKey}
         /\ hist' = IF HistKey \in done THEN <<>> ELSE hist
         /\ histSet' = (histSet \/ HistKey \in done)
         /\ rev' = IF RevKey \in done THEN 0 ELSE rev
         /\ revSet' = (revSet \/ RevKey \in done)
         /\ attrs' = IF defKind \in {"producer", "falsy"}
                     THEN getattr_(attrs, defKind, autoNone, DefName).attrs
                     ELSE attrs
         /\ last' = [op |-> "init_defaults",
                     res |-> IF defKind = "truthy" THEN "AttributeError" ELSE "ok"]
    /\ UNCHANGED <<config, loop>>

\* The call returns to its caller.
Return ==
    /\ ~Idle
    /\ last' = NoCall
    /\ UNCHANGED <<store, config, loop>>

Next ==
    \/ Refresh
    \/ Revert
    \/ RevertWith
    \/ Purge
    \/ Get
    \/ GetRev
    \/ GetHistory
    \/ InitDefaults
    \/ Return

Spec == Init /\ [][Next]_vars

DefaultsNext ==
    \/ RefreshVersion
    \/ Revert
    \/ Purge
    \/ Get
    \/ GetRev
    \/ GetHistory
    \/ InitDefaults
    \/ Return

\* The calls made on an instance of a class with its own DEFAULTS or AUTO_NONE.
DefaultsSpec == DefaultsInit /\ [][DefaultsNext]_vars

\* ------------------------------------------------ SafeRefreshableLoop.run
\* run() is entered (line 239).
RunEntry ==
    /\ pc = "init"
    /\ stopped' = FALSE
    /\ pc' = "check"
    /\ last' = [op |-> "run"]
    /\ UNCHANGED <<store, config, pause, begun, halted, heal>>

\* The check as it would be if the flag were read once, at loop entry.
CheckStale ==
    /\ pc = "check"
    /\ pc' = "step"
    /\ UNCHANGED <<store, config, stopped, pause, begun, halted, last, heal>>

\* `if self.stopped:` (line 241).
Check ==
    /\ pc = "check"
    /\ pc' = IF stopped THEN "sleep" ELSE "step"
    /\ UNCHANGED <<store, config, stopped, pause, begun, halted, last, heal>>

\* time.sleep(0.01) (line 242).
Sleep ==
    /\ pc = "sleep"
    /\ pc' = "check"
    /\ UNCHANGED <<store, config, stopped, pause, begun, halted, last, heal>>

\* The observer counts a step() call begun while a controller's stop() stands.
Count == IF pause # "none" /\ begun < MaxBegun THEN begun + 1 ELSE begun

\* The observer counts a step() call that failed after the marked point.
Tally == IF heal.on THEN [heal EXCEPT !.fails = @ + 1] ELSE heal

\* self.step() returns (line 246).
StepReturn ==
    /\ pc = "step"
    /\ pc' = "check"
    /\ begun' = Count
    /\ last' = [op |-> "step", res |-> "return"]
    /\ UNCHANGED <<store, config, stopped, pause, halted, heal>>

\* self.step() raises an exception other than KeyboardInterrupt.
StepRaise ==
    /\ pc = "step"
    /\ pc' = "except"
    /\ begun' = Count
    /\ heal' = Tally
    /\ last' = [op |-> "step", res |-> "raise"]
    /\ UNCHANGED <<store, config, stopped, pause, halted>>

\* self.step() raises KeyboardInterrupt.
StepInterrupt ==
    /\ pc = "step"
    /\ pc' = "except_kbd"
    /\ begun' = Count
    /\ last' = [op |-> "step", res |-> "interrupt"]
    /\ UNCHANGED <<store, config, stopped, pause, halted, heal>>

\* self.step() ends with self.refresh(), as Test.step does (test.py 18-21); what
\* refresh() raises leaves step().
StepRefresh ==
    /\ pc = "step"
    /\ Room
    /\ \E def \in Versions, statics \in SUBSET RefNames :
       \E o \in Outcomes(def, statics) :
         LET n == refresh(attrs, hist, histSet, rev, revSet, def, statics, o) IN
         /\ attrs' = n.attrs
         /\ hist' = n.hist
         /\ histSet' = n.histSet
         /\ rev' = n.rev
         /\ revSet' = n.revSet
         /\ pc' = IF n.res = "ok" THEN "check" ELSE "except"
         /\ heal' = IF n.res = "ok" THEN heal ELSE Tally
         /\ last' = [op |-> "step", res |-> n.res]
    /\ begun' = Count
    /\ UNCHANGED <<config, stopped, pause, halted>>

\* The handler as it would be if KeyboardInterrupt were handled like any other
\* exception: a rollback, and the loop goes on.
ExceptInterruptRecovered ==
    /\ pc = "except_kbd"
    /\ LET n == revert(attrs, hist, histSet, EmptyDict) IN
         /\ attrs' = n.attrs
         /\ hist' = n.hist
         /\ histSet' = n.histSet
         /\ stopped' = IF n.ok THEN stopped ELSE TRUE
    /\ pc' = "check"
    /\ last' = [op |-> "interrupt"]
    /\ UNCHANGED <<rev, revSet, config, pause, begun, halted, heal>>

\* except KeyboardInterrupt: (lines 247-250).
ExceptInterrupt ==
    /\ pc = "except_kbd"
    /\ stopped' = TRUE
    /\ pc' = "done"
    /\ last' = [op |-> "interrupt"]
    /\ UNCHANGED <<store, config, pause, begun, halted, heal>>

\* The handler as it would be if a step() that failed in its own refresh(),
\* which has rolled itself back, were not answered with a further rollback.
ExceptOnceOnly ==
    /\ pc = "except"
    /\ LET n == IF last.res = "refresh_failed"
                THEN [attrs |-> attrs, hist |-> hist, histSet |-> histSet,
                      ok |-> TRUE]
                ELSE revert(attrs, hist, histSet, EmptyDict) IN
         /\ attrs' = n.attrs
         /\ hist' = n.hist
         /\ histSet' = n.histSet
         /\ stopped' = IF n.ok THEN stopped ELSE TRUE
         /\ halted' = IF n.ok THEN halted ELSE TRUE
         /\ last' = [op |-> "except", res |-> n.ok, to |-> n.attrs,
                     cause |-> last.res]
    /\ pc' = "check"
    /\ UNCHANGED <<rev, revSet, config, pause, begun, heal>>

\* except: (lines 251-257).  After `self.stopped = True` the while loop goes on.
\* cause is what step() raised.
Except ==
    /\ pc = "except"
    /\ LET n == revert(attrs, hist, histSet, EmptyDict) IN
         /\ attrs' = n.attrs
         /\ hist' = n.hist
         /\ histSet' = n.histSet
         /\ stopped' = IF n.ok THEN stopped ELSE TRUE
         /\ halted' = IF n.ok THEN halted ELSE TRUE
         /\ last' = [op |-> "except", res |-> n.ok, to |-> n.attrs,
                     cause |-> last.res]
    /\ pc' = "check"
    /\ UNCHANGED <<rev, revSet, config, pause, begun, heal>>

\* A controller calls stop() (lines 226-228).
Stop ==
    /\ stopped' = TRUE
    /\ pause' = IF pc = "init" THEN "early" ELSE "late"
    /\ begun' = 0
    /\ UNCHANGED <<store, config, pc, halted, last, heal>>

\* A controller calls restart() (lines 230-232).
Restart ==
    /\ stopped' = FALSE
    /\ pause' = "none"
    /\ begun' = 0
    /\ UNCHANGED <<store, config, pc, halted, last, heal>>

LoopNext ==
    \/ RunEntry
    \/ Check
    \/ Sleep
    \/ StepReturn
    \/ StepRaise
    \/ StepInterrupt
    \/ StepRefresh
    \/ ExceptInterrupt
    \/ Except
    \/ Stop
    \/ Restart

\* The thread of a SafeRefreshableLoop and a controller that pauses it.
LoopSpec == Init /\ [][LoopNext]_vars

\* ------------------------------------------- a loop whose steps all fail
\* The observer marks a point at which the worker is about to check the flag
\* of a loop that is neither paused nor halted, and notes the length of
\* History there.
Mark ==
    /\ ~heal.on
    /\ pc = "check"
    /\ ~stopped
    /\ heal' = [on |-> TRUE, h0 |-> Len(hist), fails |-> 0]
    /\ UNCHANGED <<store, config, stopped, pc, pause, begun, halted, last>>

\* A step() call that ends in a failure other than KeyboardInterrupt: an
\* exception of its own, or the one its refresh() raised.
StepFails ==
    \/ StepRaise
    \/ StepRefresh /\ last'.res \in {"refresh_failed", "reload_failed"}

\* The thread of run() from the marked point on: every step() fails, no
\* refresh succeeds, no controller pauses the loop.
Doomed ==
    \/ heal.on /\ Check
    \/ heal.on /\ Sleep
    \/ heal.on /\ StepFails
    \/ heal.on /\ Except

\* The thread of run() up to the marked point.
Healthy ==
    \/ ~heal.on /\ RunEntry
    \/ ~heal.on /\ Check
    \/ ~heal.on /\ Sleep
    \/ ~heal.on /\ StepReturn
    \/ ~heal.on /\ StepRaise
    \/ ~heal.on /\ StepRefresh
    \/ ~heal.on /\ Except

HealNext ==
    \/ Healthy
    \/ Mark
    \/ Doomed

\* The thread is scheduled again and again (weak fairness of the worker).
HealSpec == Init /\ [][HealNext]_vars /\ WF_vars(Healthy \/ Doomed)

\* ================================================================ properties
\* The step is a refresh() call returning to a caller.
RefreshCall == last'.op = "refresh"
\* C1 (P1 atomicity): after any refresh call, successful or failed, every name
\* that was present before the call is still present and holds either the value
\* the new definition gives it or the value it held just before the call.
C1_Atomicity ==
    [][RefreshCall =>
        \A n \in Present(attrs) :
            /\ attrs'[n] # Absent
            /\ \/ attrs'[n] = attrs[n]
               \/ n \in DOMAIN last'.def /\ attrs'[n] = last'.def[n]]_vars

\* C2: a refresh that fails with RefreshFailed leaves the attribute mapping, the
\* History stack and revision exactly as they were before the call.
C2_FailedRefreshIsNoOp ==
    [][(RefreshCall /\ last'.res = "refresh_failed") =>
        (attrs' = attrs /\ hist' = hist /\ rev' = rev)]_vars

\* C3 (P2 history balance): over refresh and argument-less rollback calls the
\* length of History moves by +1 on each successful refresh, by -1 on each
\* successful rollback and not otherwise, so that it equals N - M.
C3_HistoryBalance ==
    [][last'.op \in {"refresh", "revert"} =>
        Len(hist') = Len(hist) +
            (IF last'.op = "refresh" /\ last'.res = "ok" THEN 1
             ELSE IF last'.op = "revert" /\ last'.res THEN -1
             ELSE 0)]_vars

\* C4 (P3 round trip): rollback() called right after a successful refresh
\* succeeds, gives every attribute the refresh overwrote the value it held before
\* the refresh, and removes that refresh's snapshot from History.
C4_RoundTrip ==
    [][(JustRefreshed /\ last'.op = "revert") =>
        /\ last'.res
        /\ hist' = Front(hist)
        /\ \A n \in SwapKeys(last.def, last.statics) \cap Present(last.pre) :
              attrs'[n] = last.pre[n]]_vars

\* A rollback right after a successful refresh has put back both "A" and "step".
C4_Witness ==
    /\ last.op = "revert"
    /\ last.after = "refresh"
    /\ last.res
    /\ last.from["A"] # attrs["A"]
    /\ last.from["step"] # attrs["step"]
    /\ attrs["step"] # Absent

\* C5 (P4 statics exclusion): every name in the new definition's statics list
\* has the same value after refresh returns as before the call, whether the
\* refresh succeeded or failed.
C5_StaticsUnchanged ==
    [][RefreshCall => \A n \in last'.statics : attrs'[n] = attrs[n]]_vars

\* C6: the revision counter never decreases; it grows by exactly 1 on a
\* successful refresh and no other call changes it.
C6_RevisionMonotonic ==
    [][/\ rev' >= rev
       /\ (RefreshCall /\ last'.res = "ok") => rev' = rev + 1
       /\ ~(RefreshCall /\ last'.res = "ok") => rev' = rev]_vars

\* C10: get(name) follows the default policy: a present name is returned and the
\* store is unchanged; an absent key of defaults stores and returns the
\* producer's result or the literal; an absent name outside defaults stores and
\* returns null under autoNone and otherwise fails with the store unchanged.
C10_GetPolicy ==
    [][(last'.op = "get" /\ last'.name \in Names) =>
        LET name == last'.name IN
        IF attrs[name] # Absent
        THEN last'.res = "ok" /\ last'.ret = attrs[name] /\ attrs' = attrs
        ELSE IF name \in DefaultsKeys(defKind)
        THEN LET want == IF defKind = "producer" THEN ProducedValue
                         ELSE IF defKind = "truthy" THEN TruthyLiteral
                         ELSE FalsyLiteral
             IN  /\ last'.res = "ok"
                 /\ last'.ret = want
                 /\ attrs' = [attrs EXCEPT ![name] = want]
        ELSE IF autoNone
        THEN /\ last'.res = "ok"
             /\ last'.ret = None
             /\ attrs' = [attrs EXCEPT ![name] = None]
        ELSE last'.res = "AttributeError" /\ attrs' = attrs]_vars

\* The worker makes a step() call.
StepBegins == pc = "step" /\ pc' # "step"

\* C7 (P5 loop recovery): when step() has raised a non-cancellation failure and
\* History is non-empty, the loop pops and applies the most recent snapshot and
\* stays Running, and until the next step() call begins the attributes are the
\* reverted ones and the worker is on its way to that call.
C7_LoopRecovery ==
    /\ [][(pc = "except" /\ pc' # "except" /\ hist # <<>>) =>
            /\ hist' = Front(hist)
            /\ attrs' = ApplyDict(attrs, Top(hist))
            /\ pc' = "check"
            /\ stopped' = stopped
            /\ halted' = halted]_vars
    /\ [](last.op = "except" /\ last.res =>
            attrs = last.to /\ pc \in {"check", "sleep", "step"})

\* The loop has reverted to the only snapshot and is about to call step() again.
C7_Witness ==
    /\ last.op = "except"
    /\ last.res
    /\ hist = <<>>
    /\ rev = 1
    /\ attrs["A"] = 0
    /\ pc = "step"

\* C8 (P6 loop halt is terminal): once a step() failure with empty History has
\* halted the loop, no step() call is made again, whatever pause() and resume()
\* calls follow.
C8_HaltIsTerminal ==
    [][halted => ~StepBegins]_vars

\* C9 as stated: from the return of a controller's pause() until resume() the
\* worker begins no step() call.
C9_NoStepWhilePaused ==
    [][pause # "none" => ~StepBegins]_vars

\* C9 as amended: from the return of a pause() made after the worker entered its
\* loop, until resume(), every check of the stopped flag sends the worker to
\* poll, and the worker begins at most one step() call (one whose check came
\* before the pause).
C9_PauseLatency ==
    /\ [][(pause = "late" /\ pc = "check") => pc' # "step"]_vars
    /\ [](pause = "late" => begun <= 1)

\* A step() call was begun after pause() returned, and the worker now polls.
C9_Witness ==
    /\ pause = "late"
    /\ begun = 1
    /\ pc = "sleep"
    /\ stopped

\* C11: init_defaults() only fills gaps: it completes, every key of DEFAULTS is
\* present afterwards, and every attribute that was present before the call,
\* the history and revision attributes included, keeps its value.
C11_InitDefaultsFillsGaps ==
    [][last'.op = "init_defaults" =>
        /\ last'.res = "ok"
        /\ histSet' /\ revSet'
        /\ DefName \in DefaultsKeys(defKind) => attrs'[DefName] # Absent
        /\ histSet => hist' = hist
        /\ revSet => rev' = rev
        /\ \A n \in Present(attrs) : attrs'[n] = attrs[n]]_vars

\* C12: rollback() with no snapshot on an empty History answers False and leaves
\* every attribute value, the empty History and revision unchanged, also on an
\* instance on which no refresh was ever made.
C12_NothingToRevert ==
    [][(last'.op = "revert" /\ hist = <<>>) =>
        /\ last'.res = FALSE
        /\ attrs' = attrs
        /\ hist' = <<>>
        /\ rev' = rev
        /\ revSet' = revSet]_vars

\* rollback() answered False on an instance that has never been refreshed.
C12_Witness ==
    /\ last.op = "revert"
    /\ last.res = FALSE
    /\ ~revSet
    /\ histSet
    /\ hist = <<>>

\* C13: purge() completes without error in every state, a fresh instance
\* included; History is empty afterwards and every other attribute value and
\* revision are unchanged.
C13_PurgeClears ==
    [][last'.op = "purge" =>
        /\ last'.res = "ok"
        /\ hist' = <<>>
        /\ attrs' = attrs
        /\ rev' = rev]_vars

\* C14: a refresh with no explicit definition whose definition source fails is
\* answered with the reload failure and leaves the instance untouched: no
\* attribute is written, History and revision are unchanged, no rollback is made.
C14_ReloadFailureTouchesNothing ==
    [][(RefreshCall /\ last'.kind = "reload") =>
        /\ last'.res = "reload_failed"
        /\ attrs' = attrs
        /\ hist' = hist
        /\ histSet' = histSet
        /\ rev' = rev
        /\ revSet' = revSet]_vars

\* A reload failed on an instance whose History held a snapshot to pop.
C14_Witness ==
    /\ last.op = "refresh"
    /\ last.kind = "reload"
    /\ hist # <<>>
    /\ "A" \in DOMAIN Top(hist)
    /\ attrs["A"] # Top(hist)["A"]

\* C15: rollback(snapshot) with a supplied snapshot, the empty mapping included,
\* applies exactly that snapshot's pairs and leaves History unchanged.
C15_SuppliedSnapshotKeepsHistory ==
    [][last'.op = "revert_with" =>
        /\ hist' = hist
        /\ attrs' = ApplyDict(attrs, last'.snap)]_vars

\* C16: in every reachable state no name of the instance's current statics
\* set (the STATICS of the definition applied last) is a key of any snapshot
\* held in History, whatever statics lists the earlier definitions carried.
C16_NoStaticInAnySnapshot ==
    JustRefreshed =>
        \A i \in 1..Len(hist) : DOMAIN hist[i] \cap last.statics = {}

\* C16, as the code has it: no name in the statics list of the definition a
\* successful refresh applied is a key of the snapshot that refresh pushed.
C16_NoStaticInOwnSnapshot ==
    JustRefreshed =>
        /\ hist # <<>>
        /\ DOMAIN Top(hist) \cap last.statics = {}

\* A refresh whose definition lists A as static and gives A a value succeeded
\* on an instance whose older snapshot, pushed under another statics list,
\* has A as a key.
C16_Witness ==
    /\ JustRefreshed
    /\ "A" \in last.statics
    /\ "A" \in DOMAIN last.def
    /\ Len(hist) = 2
    /\ "A" \in DOMAIN hist[1]

\* C17: a snapshot records exactly the names the instance already held and
\* the refresh overwrote; the set of attribute names never shrinks; a name a
\* refresh introduced keeps the new definition's value when that refresh is
\* rolled back; a name held before a refresh and absent from the new
\* definition keeps its old value after it.
C17_SnapshotContents ==
    [][/\ Present(attrs) \subseteq Present(attrs')
       /\ RefreshCall =>
            /\ \A n \in Present(attrs) \ DOMAIN last'.def : attrs'[n] = attrs[n]
            /\ last'.res = "ok" =>
                 Top(hist') = [n \in SwapKeys(last'.def, last'.statics)
                                       \cap Present(attrs) |-> attrs[n]]
       /\ (JustRefreshed /\ last'.op = "revert") =>
            \A n \in SwapKeys(last.def, last.statics) \ Present(last.pre) :
                attrs'[n] = last.def[n]]_vars

\* C18: when step() raises the cancellation signal the loop goes to its
\* stopped condition and its cycle exits without a rollback: History, every
\* attribute and the revision stay as the step left them, and no step() is
\* called again.
C18_CancellationIsCleanShutdown ==
    [][/\ (pc = "except_kbd" /\ pc' # pc) =>
            /\ pc' = "done"
            /\ stopped'
            /\ store' = store
       /\ pc = "done" => (pc' = "done" /\ store' = store)]_vars

\* The cycle has exited on a cancellation with a snapshot left in History.
C18_Witness ==
    /\ pc = "done"
    /\ last.op = "interrupt"
    /\ stopped
    /\ hist # <<>>

\* The failures of step() other than the cancellation signal.
Failures == {"raise", "refresh_failed", "reload_failed"}

\* C19: every failure of step() other than cancellation reaches the loop's
\* handler, which makes exactly one revert() with no argument, whatever the
\* cause: it pops one History entry when there is one and sets the loop's
\* halted condition when there is none; this holds too after a refresh()
\* inside step() raised having rolled itself back.
C19_OneRollbackPerFailure ==
    [][/\ (pc = "step" /\ pc' # pc /\ last'.res \in Failures) => pc' = "except"
       /\ (pc = "except" /\ pc' # pc) =>
            /\ last.res \in Failures
            /\ last'.cause = last.res
            /\ pc' = "check"
            /\ rev' = rev
            /\ IF hist # <<>>
               THEN /\ hist' = Front(hist)
                    /\ attrs' = ApplyDict(attrs, Top(hist))
                    /\ last'.res
                    /\ halted' = halted
               ELSE /\ hist' = <<>>
                    /\ attrs' = attrs
                    /\ ~last'.res
                    /\ halted'
                    /\ stopped']_vars

\* The loop has popped the snapshot of an earlier refresh after a step() whose
\* own refresh() failed and rolled itself back.
C19_Witness ==
    /\ last.op = "except"
    /\ last.cause = "refresh_failed"
    /\ last.res
    /\ rev = 1
    /\ hist = <<>>

\* C20: from a point after which every step() fails with a failure other than
\* cancellation, no refresh succeeds and the loop is not paused, the loop
\* reaches its halted condition, after exactly |History| + 1 failing step()
\* calls counted from that point, its rollbacks having popped every snapshot
\* most recent first.
C20_BoundedSelfHealing ==
    /\ heal.on ~> halted
    /\ [](heal.on /\ halted => (heal.fails = heal.h0 + 1 /\ hist = <<>>))
    /\ [][(heal.on /\ hist' # hist) => hist' = Front(hist)]_vars

====
